---- MODULE Spec2Model ----
(***************************************************************************)
(* CodeBuild pipeline actions (PipelineBuildAction, PipelineTestAction) of *)
(* packages/@aws-cdk/aws-codebuild/lib/pipeline-actions.ts.                *)
(*                                                                         *)
(* One stage of one pipeline is modelled.  Actions are constructed one     *)
(* after the other; the statements of a constructor run in the order of    *)
(* ConstructorBody, one step per statement.  The pipeline role's policy    *)
(* and the bucket grants made on project roles outlive each construction.  *)
(*                                                                         *)
(* An optional value (a property that may be undefined) is a tuple: <<>>   *)
(* when undefined, <<v>> when set to v.                                    *)
(***************************************************************************)
EXTENDS Integers, Sequences, FiniteSets, TLC

VARIABLES
    status,                    \* "none" | "constructing" | "constructed" | "failed"
    pc,                        \* index in ConstructorBody of the next statement; 0 when not constructing
    kind,                      \* "build" | "test": the class being constructed
    props,                     \* the props given to the constructor
    inputArtifacts,            \* action._inputArtifacts
    outputArtifacts,           \* action._outputArtifacts
    outputArtifact,            \* action.outputArtifact (optional)
    configuration,             \* action.configuration
    pipelinePolicy,            \* statements added to stage.pipeline.role
    bucketGrants,              \* grantBucketRead / grantBucketReadWrite calls made on the pipeline
    needsPipelineBucketWrite,  \* argument of the latest setCodeBuildNeededPermissions call (optional)
    constructions,             \* number of constructor calls made so far
    lookup                     \* outcome of the latest additionalOutputArtifact(name) call

vars == <<status, pc, kind, props, inputArtifacts, outputArtifacts, outputArtifact,
          configuration, pipelinePolicy, bucketGrants, needsPipelineBucketWrite,
          constructions, lookup>>

actionVars == <<kind, props, inputArtifacts, outputArtifacts, outputArtifact, configuration>>

roleVars == <<pipelinePolicy, bucketGrants, needsPipelineBucketWrite>>

-----------------------------------------------------------------------------
(* Bounds of the model *)

\* longest additionalInputArtifacts / additionalOutputArtifactNames list drawn
MaxAdditional == 6

\* number of actions constructed in one behaviour
MaxConstructions == 2

(* artifactBounds passed to the base constructor *)
minInputs == 1
maxInputs == 5
minOutputs == 0
maxOutputs == 5

-----------------------------------------------------------------------------
(* Values *)

Artifact(name) == [name |-> name]

Project(n) ==
    [projectName |-> n,
     projectArn  |-> IF n = "P1" THEN "arn:aws:codebuild:us-east-1:123456789012:project/P1"
                                 ELSE "arn:aws:codebuild:us-east-1:123456789012:project/P2",
     role        |-> IF n = "P1" THEN "P1/Role" ELSE "P2/Role"]

Projects == {Project("P1"), Project("P2")}

\* output artifact names; "a" and "Ab", which are looked up, are a prefix and a case
\* variant of the name "ab"
NamePool == <<"ab", "B", "c", "d", "e", "f", "g", "h", "i", "j">>

SourceArtifactPool ==
    [i \in 1..10 |-> Artifact(<<"source", i>>)]

Prefix(pool, k) == SubSeq(pool, 1, k)

Reverse(s) == [i \in 1..Len(s) |-> s[Len(s) + 1 - i]]

\* the optional lists drawn from a pool: undefined, the first k elements for every
\* k up to MaxAdditional, and one list out of pool order
Declarations(pool) ==
    {<<>>} \cup {<<Prefix(pool, k)>> : k \in 0..MaxAdditional}
           \cup {<<Reverse(Prefix(pool, 2))>>}

\* inputArtifact with additionalInputArtifacts: an undefined inputArtifact is drawn
\* with at most one additional input artifact
InputDeclarations ==
    {d \in {<<>>, <<Artifact("src")>>} \X Declarations(SourceArtifactPool) :
        d[1] # <<>> \/ d[2] = <<>> \/ Len(d[2][1]) <= 1}

ArtifactsOf(names) == [i \in 1..Len(names) |-> Artifact(names[i])]

AllProps ==
    { [project                       |-> p,
       inputArtifact                 |-> d[1],
       outputArtifactName            |-> on,
       additionalInputArtifacts      |-> d[2],
       additionalOutputArtifactNames |-> an]
      : p \in Projects,
        d \in InputDeclarations,
        on \in {<<>>, <<"main">>},
        an \in Declarations(NamePool) }

LookupNames == {"main", "ab", "a", "Ab", "c"}

\* props.x || []
OrEmpty(opt) == IF opt = <<>> THEN <<>> ELSE opt[1]

\* no additionalOutputArtifact(name) call made on the action yet
NoLookup == [name |-> "", outcome |-> [status |-> "none"]]

-----------------------------------------------------------------------------
(* The base classes codepipeline.BuildAction / codepipeline.TestAction *)

\* addInputArtifact(props.inputArtifact): an undefined artifact resolves to the
\* output of the last action of the previous stage
PrimaryInput(p) ==
    IF p.inputArtifact = <<>> THEN Artifact("PreviousStageOutput") ELSE p.inputArtifact[1]

\* BuildAction: outputArtifact = addOutputArtifact(props.outputArtifactName), an
\* undefined name being replaced by a generated one
BuildActionOutput(p) ==
    IF p.outputArtifactName = <<>> THEN <<Artifact("GeneratedOutputName")>>
                                   ELSE <<Artifact(p.outputArtifactName[1])>>

\* TestAction: the output artifact exists only if a name was given
TestActionOutput(p) ==
    IF p.outputArtifactName = <<>> THEN <<>> ELSE <<Artifact(p.outputArtifactName[1])>>

\* the validation of the final lists against the artifact bounds
WithinBounds(ins, outs) ==
    /\ minInputs <= Len(ins)
    /\ Len(ins) <= maxInputs
    /\ minOutputs <= Len(outs)
    /\ Len(outs) <= maxOutputs

-----------------------------------------------------------------------------
(* pipeline-actions.ts *)

\* the statements of both constructors, in source order
ConstructorBody ==
    <<"super", "setCodeBuildNeededPermissions", "handleAdditionalInputOutputArtifacts">>

\* configuration: { ProjectName: props.project.projectName }
InitialConfiguration(p) == [k \in {"ProjectName"} |-> p.project.projectName]

\* the statement with a wildcard instead of the project's ARN
PolicyStatement_wildcard(project) ==
    [resources |-> <<"*">>,
     actions   |-> <<"codebuild:BatchGetBuilds", "codebuild:StartBuild", "codebuild:StopBuild">>]

\* new iam.PolicyStatement().addResource(project.projectArn).addActions(...)
PolicyStatement(project) ==
    [resources |-> <<project.projectArn>>,
     actions   |-> <<"codebuild:BatchGetBuilds", "codebuild:StartBuild", "codebuild:StopBuild">>]

\* the read grant made unconditionally, the read-write grant added to it
BucketGrant_readThenWrite(project, needsWrite) ==
    <<[call |-> "grantBucketRead", identity |-> project.role]>>
    \o (IF needsWrite
        THEN <<[call |-> "grantBucketReadWrite", identity |-> project.role]>>
        ELSE <<>>)

\* if (needsPipelineBucketWrite) grantBucketReadWrite(project.role) else grantBucketRead(project.role)
BucketGrant(project, needsWrite) ==
    IF needsWrite THEN <<[call |-> "grantBucketReadWrite", identity |-> project.role]>>
                  ELSE <<[call |-> "grantBucketRead", identity |-> project.role]>>

\* !!props.outputArtifactName, the third argument PipelineTestAction passes to
\* setCodeBuildNeededPermissions: false for an undefined name and for the empty
\* string, true for every other string
TestNeedsWrite(p) ==
    /\ p.outputArtifactName # <<>>
    /\ p.outputArtifactName[1] # ""

\* PrimarySource set whether or not there are additional input artifacts
WithPrimarySource_unconditional(conf, ins, p) ==
    [k \in DOMAIN conf \cup {"PrimarySource"} |->
        IF k = "PrimarySource" THEN ins[1].name ELSE conf[k]]

\* action.configuration.PrimarySource = action._inputArtifacts[0].name, when there
\* are additional input artifacts
WithPrimarySource(conf, ins, p) ==
    IF Len(OrEmpty(p.additionalInputArtifacts)) > 0
    THEN [k \in DOMAIN conf \cup {"PrimarySource"} |->
             IF k = "PrimarySource" THEN ins[1].name ELSE conf[k]]
    ELSE conf

\* the loop stopping one additional input artifact short
WithAdditionalInputs_dropLast(ins, p) ==
    IF Len(OrEmpty(p.additionalInputArtifacts)) > 0
    THEN ins \o SubSeq(OrEmpty(p.additionalInputArtifacts), 1,
                       Len(OrEmpty(p.additionalInputArtifacts)) - 1)
    ELSE ins

\* for (const a of props.additionalInputArtifacts || []) addInputArtifact(a)
WithAdditionalInputs(ins, p) ==
    IF Len(OrEmpty(p.additionalInputArtifacts)) > 0
    THEN ins \o OrEmpty(p.additionalInputArtifacts)
    ELSE ins

\* the additional outputs put in front of the outputs already in the list
WithAdditionalOutputs_prepend(outs, p) ==
    ArtifactsOf(OrEmpty(p.additionalOutputArtifactNames)) \o outs

\* for (const n of props.additionalOutputArtifactNames || []) addOutputArtifact(n)
WithAdditionalOutputs(outs, p) ==
    outs \o ArtifactsOf(OrEmpty(p.additionalOutputArtifactNames))

\* PipelineBuildAction.additionalOutputArtifacts: this._outputArtifacts.slice(1)
BuildAdditionalOutputArtifacts(outs) == SubSeq(outs, 2, Len(outs))

\* the first output dropped whether or not it is a primary output
TestAdditionalOutputArtifacts_sliceAlways(outs, primary) == SubSeq(outs, 2, Len(outs))

\* PipelineTestAction.additionalOutputArtifacts
TestAdditionalOutputArtifacts(outs, primary) ==
    IF primary = <<>> THEN outs ELSE SubSeq(outs, 2, Len(outs))

additionalOutputArtifacts ==
    IF kind = "build" THEN BuildAdditionalOutputArtifacts(outputArtifacts)
                      ELSE TestAdditionalOutputArtifacts(outputArtifacts, outputArtifact)

\* artifacts.find((artifact) => artifact.name === name): the first match, or undefined
ArrayFind(artifacts, name) ==
    LET hits == {i \in 1..Len(artifacts) : artifacts[i].name = name}
    IN  IF hits = {} THEN <<>>
        ELSE <<artifacts[CHOOSE i \in hits : \A j \in hits : i <= j]>>

LowerCase(name) ==
    CASE name = "Ab" -> "ab"
      [] name = "B"  -> "b"
      [] OTHER       -> name

\* names compared without regard to case
findOutputArtifact_ignoreCase(artifacts, name) ==
    LET hits == {i \in 1..Len(artifacts) : LowerCase(artifacts[i].name) = LowerCase(name)}
    IN  IF hits = {}
        THEN [status  |-> "thrown",
              message |-> <<"Could not find output artifact with name '", name, "'">>]
        ELSE [status |-> "returned",
              artifact |-> artifacts[CHOOSE i \in hits : \A j \in hits : i <= j]]

findOutputArtifact(artifacts, name) ==
    LET ret == ArrayFind(artifacts, name)
    IN  IF ret = <<>>
        THEN [status  |-> "thrown",
              message |-> <<"Could not find output artifact with name '", name, "'">>]
        ELSE [status |-> "returned", artifact |-> ret[1]]

-----------------------------------------------------------------------------
(* Initial state: no action constructed, no grant made *)

NoProps ==
    [project                       |-> Project("P1"),
     inputArtifact                 |-> <<>>,
     outputArtifactName            |-> <<>>,
     additionalInputArtifacts      |-> <<>>,
     additionalOutputArtifactNames |-> <<>>]

Init ==
    /\ status = "none"
    /\ pc = 0
    /\ kind = "none"
    /\ props = NoProps
    /\ inputArtifacts = <<>>
    /\ outputArtifacts = <<>>
    /\ outputArtifact = <<>>
    /\ configuration = <<>>
    /\ pipelinePolicy = <<>>
    /\ bucketGrants = <<>>
    /\ needsPipelineBucketWrite = <<>>
    /\ constructions = 0
    /\ lookup = NoLookup

-----------------------------------------------------------------------------
(* Construction, one step per statement of the constructor *)

\* the statement the constructor in progress runs next
Statement ==
    IF status = "constructing" /\ pc \in 1..Len(ConstructorBody)
    THEN ConstructorBody[pc] ELSE "none"

\* new PipelineBuildAction(parent, name, props): the super(...) call
PipelineBuildAction_super(p) ==
    /\ status # "constructing"
    /\ constructions < MaxConstructions
    /\ ConstructorBody[1] = "super"
    /\ status' = "constructing"
    /\ pc' = 2
    /\ kind' = "build"
    /\ props' = p
    /\ configuration' = InitialConfiguration(p)
    /\ inputArtifacts' = <<PrimaryInput(p)>>
    /\ outputArtifacts' = BuildActionOutput(p)
    /\ outputArtifact' = BuildActionOutput(p)
    /\ constructions' = constructions + 1
    /\ needsPipelineBucketWrite' = <<>>
    /\ lookup' = NoLookup
    /\ UNCHANGED <<pipelinePolicy, bucketGrants>>

\* new PipelineTestAction(parent, name, props): the super(...) call
PipelineTestAction_super(p) ==
    /\ status # "constructing"
    /\ constructions < MaxConstructions
    /\ ConstructorBody[1] = "super"
    /\ status' = "constructing"
    /\ pc' = 2
    /\ kind' = "test"
    /\ props' = p
    /\ configuration' = InitialConfiguration(p)
    /\ inputArtifacts' = <<PrimaryInput(p)>>
    /\ outputArtifacts' = TestActionOutput(p)
    /\ outputArtifact' = TestActionOutput(p)
    /\ constructions' = constructions + 1
    /\ needsPipelineBucketWrite' = <<>>
    /\ lookup' = NoLookup
    /\ UNCHANGED <<pipelinePolicy, bucketGrants>>

setCodeBuildNeededPermissions(project, needsWrite) ==
    /\ needsPipelineBucketWrite' = <<needsWrite>>
    /\ pipelinePolicy' = Append(pipelinePolicy, PolicyStatement(project))
    /\ bucketGrants' = bucketGrants \o BucketGrant(project, needsWrite)

\* setCodeBuildNeededPermissions(props.stage, props.project, true)
PipelineBuildAction_setPermissions ==
    /\ kind = "build"
    /\ Statement = "setCodeBuildNeededPermissions"
    /\ setCodeBuildNeededPermissions(props.project, TRUE)
    /\ pc' = pc + 1
    /\ UNCHANGED <<status, actionVars, constructions, lookup>>

\* setCodeBuildNeededPermissions(props.stage, props.project, !!props.outputArtifactName)
PipelineTestAction_setPermissions ==
    /\ kind = "test"
    /\ Statement = "setCodeBuildNeededPermissions"
    /\ setCodeBuildNeededPermissions(props.project, TestNeedsWrite(props))
    /\ pc' = pc + 1
    /\ UNCHANGED <<status, actionVars, constructions, lookup>>

handleAdditionalInputOutputArtifacts ==
    /\ Statement = "handleAdditionalInputOutputArtifacts"
    /\ configuration' = WithPrimarySource(configuration, inputArtifacts, props)
    /\ inputArtifacts' = WithAdditionalInputs(inputArtifacts, props)
    /\ outputArtifacts' = WithAdditionalOutputs(outputArtifacts, props)
    /\ pc' = pc + 1
    /\ UNCHANGED <<status, kind, props, outputArtifact, roleVars, constructions, lookup>>

\* the constructor has run all its statements: the final lists are validated
\* against the artifact bounds, and a violation fails the construction
validateArtifactBounds ==
    /\ status = "constructing"
    /\ pc = Len(ConstructorBody) + 1
    /\ status' = IF WithinBounds(inputArtifacts, outputArtifacts)
                 THEN "constructed" ELSE "failed"
    /\ pc' = 0
    /\ UNCHANGED <<actionVars, roleVars, constructions, lookup>>

-----------------------------------------------------------------------------
(* Queries on a constructed action *)

PipelineBuildAction_additionalOutputArtifact(name) ==
    /\ status = "constructed"
    /\ kind = "build"
    /\ lookup' = [name    |-> name,
                  outcome |-> findOutputArtifact(
                                  BuildAdditionalOutputArtifacts(outputArtifacts), name)]
    /\ UNCHANGED <<status, pc, actionVars, roleVars, constructions>>

PipelineTestAction_additionalOutputArtifact(name) ==
    /\ status = "constructed"
    /\ kind = "test"
    /\ lookup' = [name    |-> name,
                  outcome |-> findOutputArtifact(
                                  TestAdditionalOutputArtifacts(outputArtifacts, outputArtifact),
                                  name)]
    /\ UNCHANGED <<status, pc, actionVars, roleVars, constructions>>

-----------------------------------------------------------------------------

Next ==
    \/ \E p \in AllProps : PipelineBuildAction_super(p)
    \/ \E p \in AllProps : PipelineTestAction_super(p)
    \/ PipelineBuildAction_setPermissions
    \/ PipelineTestAction_setPermissions
    \/ handleAdditionalInputOutputArtifacts
    \/ validateArtifactBounds
    \/ \E name \in LookupNames : PipelineBuildAction_additionalOutputArtifact(name)
    \/ \E name \in LookupNames : PipelineTestAction_additionalOutputArtifact(name)

Spec == Init /\ [][Next]_vars

-----------------------------------------------------------------------------
(* What the props declare, and what the roles have received *)

DeclaredAdditionalInputs == OrEmpty(props.additionalInputArtifacts)

DeclaredAdditionalOutputNames == OrEmpty(props.additionalOutputArtifactNames)

\* 1 if the action has a primary output, else 0
PrimaryOutputCount ==
    IF kind = "build" \/ props.outputArtifactName # <<>> THEN 1 ELSE 0

\* the lists hold every declared artifact
ListsFinal ==
    /\ Len(inputArtifacts) = 1 + Len(DeclaredAdditionalInputs)
    /\ Len(outputArtifacts) = PrimaryOutputCount + Len(DeclaredAdditionalOutputNames)

\* every earlier construction left one statement and one bucket grant, so the
\* latest construction has made a grant once either list is as long as the
\* number of constructions
GrantMade ==
    \/ Len(pipelinePolicy) >= constructions
    \/ Len(bucketGrants) >= constructions

NoGrantMade ==
    /\ Len(pipelinePolicy) < constructions
    /\ Len(bucketGrants) < constructions

Last(seq) == seq[Len(seq)]

Range(seq) == {seq[i] : i \in 1..Len(seq)}

IsPrefix(s, t) == Len(s) <= Len(t) /\ SubSeq(t, 1, Len(s)) = s

-----------------------------------------------------------------------------
(* C1 *)

\* C1: a constructed action's project role has read-write access to the artifact
\* store if and only if the action's final output list is non-empty, and read-only
\* access otherwise.
C1_WriteIffOutputs ==
    status = "constructed" =>
        /\ Len(bucketGrants) >= 1
        /\ Last(bucketGrants).call =
               (IF Len(outputArtifacts) > 0 THEN "grantBucketReadWrite" ELSE "grantBucketRead")

-----------------------------------------------------------------------------
(* C2 *)

\* C2: once a permission grant of the construction in progress has been made on
\* the pipeline role or on the project role, every additional input artifact and
\* every additional output artifact is already in the action's lists.
C2_BindingBeforeGrants ==
    (status = "constructing" /\ GrantMade) => ListsFinal

-----------------------------------------------------------------------------
(* C3 *)

\* C3: when the construction fails on the artifact bounds, the action has added
\* nothing to the pipeline role's policy and made no bucket grant on the project
\* role.
C3_FailsBeforeGrants ==
    status = "failed" => NoGrantMade

-----------------------------------------------------------------------------
(* C4 *)

\* C4: the final input count is 1 plus the number of additional input artifacts,
\* the final output count is the primary output (if any) plus the number of
\* additional output names, and the construction succeeds if and only if the
\* input count is in 1..5 and the output count is in 0..5.
C4_SucceedsIffWithinBounds ==
    status \in {"constructed", "failed"} =>
        LET n == 1 + Len(DeclaredAdditionalInputs)
            m == PrimaryOutputCount + Len(DeclaredAdditionalOutputNames)
        IN  /\ Len(inputArtifacts) = n
            /\ Len(outputArtifacts) = m
            /\ (status = "constructed") <=> (1 <= n /\ n <= 5 /\ 0 <= m /\ m <= 5)

C4_Witness ==
    /\ status = "failed"
    /\ Len(inputArtifacts) = 5
    /\ Len(outputArtifacts) = 6
    /\ Len(DeclaredAdditionalOutputNames) = 5

-----------------------------------------------------------------------------
(* C5 *)

\* C5: after construction, if there are additional input artifacts the
\* configuration's PrimarySource is the name of the first artifact of the final
\* input list and the additional inputs follow it in declaration order; if there
\* are none, the configuration has no PrimarySource key.
C5_PrimarySource ==
    status = "constructed" =>
        IF Len(DeclaredAdditionalInputs) > 0
        THEN /\ "PrimarySource" \in DOMAIN configuration
             /\ configuration["PrimarySource"] = inputArtifacts[1].name
             /\ SubSeq(inputArtifacts, 2, Len(inputArtifacts)) = DeclaredAdditionalInputs
        ELSE "PrimarySource" \notin DOMAIN configuration

C5_Witness ==
    /\ status = "constructed"
    /\ Len(inputArtifacts) = 3
    /\ inputArtifacts[2].name = <<"source", 2>>
    /\ "PrimarySource" \in DOMAIN configuration
    /\ configuration["PrimarySource"] = "src"

-----------------------------------------------------------------------------
(* C6 *)

\* C6: additionalOutputArtifacts() is the list of artifacts named by
\* additionalOutputArtifactNames, in declaration order, without the primary output:
\* the output list without its first element for a build action and for a test
\* action given a primary output name, the whole output list for a test action
\* given none.
C6_AdditionalOutputArtifacts ==
    status = "constructed" =>
        /\ Len(additionalOutputArtifacts) = Len(DeclaredAdditionalOutputNames)
        /\ \A i \in 1..Len(DeclaredAdditionalOutputNames) :
               additionalOutputArtifacts[i].name = DeclaredAdditionalOutputNames[i]
        /\ additionalOutputArtifacts =
               (IF kind = "test" /\ props.outputArtifactName = <<>>
                THEN outputArtifacts
                ELSE SubSeq(outputArtifacts, 2, Len(outputArtifacts)))
        /\ outputArtifact # <<>> => outputArtifact[1] \notin Range(additionalOutputArtifacts)

C6_Witness ==
    /\ status = "constructed"
    /\ kind = "test"
    /\ props.outputArtifactName = <<>>
    /\ Len(outputArtifacts) = 2
    /\ additionalOutputArtifacts = outputArtifacts

-----------------------------------------------------------------------------
(* C7 *)

\* what additionalOutputArtifact(name) is to yield on the action as declared
ExpectedLookup(name) ==
    IF name \in Range(DeclaredAdditionalOutputNames)
    THEN [status |-> "returned", artifact |-> [name |-> name]]
    ELSE [status  |-> "thrown",
          message |-> <<"Could not find output artifact with name '", name, "'">>]

\* C7: additionalOutputArtifact(name) returns the additional output artifact whose
\* name is exactly name, throws an error carrying name when no additional output
\* has that name, and changes nothing of the action or of the roles.
C7_AdditionalOutputArtifact ==
    [][ (lookup' # lookup /\ lookup'.outcome.status # "none") =>
            /\ lookup'.outcome = ExpectedLookup(lookup'.name)
            /\ UNCHANGED <<status, pc, actionVars, roleVars, constructions>> ]_vars

C7_Witness ==
    /\ lookup.name = "Ab"
    /\ lookup.outcome.status = "thrown"
    /\ lookup.outcome.message[2] = "Ab"
    /\ "ab" \in Range(DeclaredAdditionalOutputNames)

-----------------------------------------------------------------------------
(* C8 *)

\* the output list holds the primary output (if any) first, then the additional
\* outputs in declaration order
OutputsInDeclarationOrder ==
    /\ Len(outputArtifacts) = PrimaryOutputCount + Len(DeclaredAdditionalOutputNames)
    /\ props.outputArtifactName # <<>> =>
           outputArtifacts[1].name = props.outputArtifactName[1]
    /\ \A i \in 1..Len(DeclaredAdditionalOutputNames) :
           outputArtifacts[PrimaryOutputCount + i].name = DeclaredAdditionalOutputNames[i]

\* C8: in the final output list the primary output (if any) is first and the
\* additional outputs follow in declaration order, and a step of a construction
\* only appends to the output list.
C8_OutputOrder ==
    [][ /\ status = "constructing" => IsPrefix(outputArtifacts, outputArtifacts')
        /\ status' \in {"constructed", "failed"} => OutputsInDeclarationOrder' ]_vars

C8_Witness ==
    /\ status = "constructed"
    /\ props.outputArtifactName = <<"main">>
    /\ DeclaredAdditionalOutputNames = <<"B", "ab">>
    /\ Len(outputArtifacts) = 3
    /\ outputArtifacts[3].name = "ab"

-----------------------------------------------------------------------------
(* C9 *)

\* C9: the pipeline role's statements are only added to, and when a construction
\* ends it has added one statement, whose actions are the three CodeBuild actions
\* and whose only resource is the ARN of the action's project.
C9_PipelineRoleStatement ==
    [][ /\ IsPrefix(pipelinePolicy, pipelinePolicy')
        /\ (status = "constructing" /\ status' # "constructing") =>
               /\ Len(pipelinePolicy') = constructions'
               /\ Last(pipelinePolicy').resources = <<props'.project.projectArn>>
               /\ Len(Last(pipelinePolicy').actions) = 3
               /\ Range(Last(pipelinePolicy').actions) =
                      {"codebuild:BatchGetBuilds", "codebuild:StartBuild",
                       "codebuild:StopBuild"} ]_vars

C9_Witness ==
    /\ status = "constructed"
    /\ constructions = 2
    /\ Len(pipelinePolicy) = 2
    /\ pipelinePolicy[1].resources # pipelinePolicy[2].resources
    /\ needsPipelineBucketWrite = <<FALSE>>

-----------------------------------------------------------------------------
(* C10 *)

\* C10: a call of setCodeBuildNeededPermissions makes one bucket grant on the
\* project's role, grantBucketReadWrite when needsPipelineBucketWrite is true and
\* grantBucketRead when it is false, and no other step makes a bucket grant.
C10_OneBucketGrant ==
    [][ IF needsPipelineBucketWrite = <<>> /\ needsPipelineBucketWrite' # <<>>
        THEN bucketGrants' =
                 Append(bucketGrants,
                        [call     |-> IF needsPipelineBucketWrite'[1]
                                      THEN "grantBucketReadWrite"
                                      ELSE "grantBucketRead",
                         identity |-> props.project.role])
        ELSE bucketGrants' = bucketGrants ]_vars

C10_Witness ==
    /\ needsPipelineBucketWrite = <<FALSE>>
    /\ Len(bucketGrants) = 2
    /\ bucketGrants[1].call = "grantBucketReadWrite"
    /\ bucketGrants[2].call = "grantBucketRead"

====
